---- MODULE Spec2Model ----
(***************************************************************************)
(* npm-bisect: a model of the bisection driver (npm-bisect.js), of its      *)
(* probe runner installDependencies, and of the intercept proxy (main.js)  *)
(* with its time-bounded metadata rewriter.                                *)
(*                                                                         *)
(* Instants are milliseconds since the epoch, as Date.prototype.getTime    *)
(* returns them.  An Invalid Date (getTime() is NaN) is InvalidDate.       *)
(***************************************************************************)
EXTENDS Integers, Sequences, FiniteSets, TLC

VARIABLES
    \* ---- bisection driver (npm-bisect.js) ----
    pc,               \* position of the async main function
    timeline,         \* the filtered candidate list, sorted by time
    goodBeforeIndex,  \* 0-based, as in the source
    badAfterIndex,    \* 0-based, as in the source
    tryBeforeIndex,   \* index probed by the current iteration
    ignoreNewerThan,  \* cutoff handed to installDependencies
    badEvent,         \* the event reported at the end
    culprit,          \* environment: 0-based index of the event that broke the project
    oracle,           \* environment: how checkWorkingState answers
    \* ---- metadata rewriter (main.js) ----
    rpc,              \* position of the rewriter harness
    variant,          \* which copy of main.js is running
    cutoff,           \* ignoreNewerThan of the proxy process
    obj,              \* the parsed registry document (without its time map)
    timeByVersion,    \* the time map handed to the rewriter
    changesMade,      \* return value of the last call
    input,            \* the document and time map as first received
    before,           \* the document and time map before the last call
    \* ---- probe runner (installDependencies of npm-bisect.js) ----
    ipc,              \* position of the running installDependencies call
    computeTimeline,  \* its computeTimeline argument
    yarn,             \* the --yarn switch of the driver
    cacheDirExists,   \* the per-probe cache directory is on disk
    wrapped,          \* spawn-wrap is engaged
    child,            \* the install subprocess
    settled,          \* the promise around the subprocess
    \* ---- intercept proxy (main.js) ----
    bypassNextConnect,\* the one-shot flag of the proxy
    requests,         \* the intercepted requests, in order of arrival
    lastConnect,      \* the most recent 'connect' event and what became of it
    \* ---- start of the driver (npm-bisect.js, ahead of the bisection) ----
    argv,             \* the command line as yargs parsed it
    goodTime,         \* new Date(good)
    badTime,          \* new Date(bad)
    ignore,           \* the ignore list: the command line's, or the prompt's answer
    stdout,           \* the events printed by --candidates
    installs,         \* number of installDependencies calls made so far
    numStepsLeft,     \* the numbers printed as "Roughly N steps left", in order
    \* ---- timeline transport from the proxies to the driver ----
    driver,           \* which copy of npm-bisect.js is running
    transport,        \* how the proxies of the probe emit their timelines
    recorded,         \* per proxy process of the probe, the events it recorded
    returned          \* what the last installDependencies call resolved with

driverVars == <<pc, timeline, goodBeforeIndex, badAfterIndex, tryBeforeIndex,
                ignoreNewerThan, badEvent, culprit, oracle>>
rewriterVars == <<rpc, variant, cutoff, obj, timeByVersion, changesMade, input, before>>
probeVars == <<ipc, computeTimeline, yarn, cacheDirExists, wrapped, child, settled>>
proxyVars == <<bypassNextConnect, requests, lastConnect>>
startVars == <<argv, goodTime, badTime, ignore, stdout, installs, numStepsLeft>>
transportVars == <<driver, transport, recorded, returned>>
vars == <<driverVars, rewriterVars, probeVars, proxyVars, startVars, transportVars>>

----------------------------------------------------------------------------
(* Bounds *)

\* longest candidate timeline
MaxTimeline == 4
\* latest publish instant of a timeline event
MaxPublishTime == 3
\* latest publish instant in a registry time map, and latest proxy cutoff
MaxTime == 2
\* largest number of entries of a registry time map
MaxTimeKeys == 3

----------------------------------------------------------------------------
(* Dates *)

\* new Date(x).getTime() of an unparseable x is NaN
InvalidDate == -1

\* the raw value of a time-map entry that new Date() cannot parse
Unparseable == -2

\* new Date(raw).getTime(): a well-formed timestamp denotes its instant
NewDate(raw) == IF raw >= 0 THEN raw ELSE InvalidDate

\* a > b on two Date objects: both are converted with valueOf(), and every
\* comparison with NaN is false
DateGT(a, b) == a # InvalidDate /\ b # InvalidDate /\ a > b

----------------------------------------------------------------------------
(* Components that are not running *)

\* no 'connect' event has been seen yet
NoConnect ==
    [origin |-> "none", dial |-> "none", servername |-> "", flagBefore |-> FALSE,
     bypassed |-> FALSE, flagAfter |-> FALSE]

\* no proxy process is running: let bypassNextConnect = false, nothing intercepted
ProxyIdle ==
    /\ bypassNextConnect = FALSE
    /\ requests = <<>>
    /\ lastConnect = NoConnect

\* no installDependencies call is running
ProbeIdle ==
    /\ ipc = "idle"
    /\ computeTimeline = FALSE
    /\ cacheDirExists = FALSE
    /\ wrapped = FALSE
    /\ child = "none"
    /\ settled = "pending"

\* resolve() without a value
NoTimeline == [defined |-> FALSE, events |-> <<>>]

\* the command line has been dealt with and the first probe is over: the
\* window was (0, MaxPublishTime], nothing was filtered, nothing printed
StartDone ==
    /\ argv = [good |-> 0, bad |-> MaxPublishTime, only |-> <<>>,
               ignore |-> <<>>, candidates |-> FALSE]
    /\ goodTime = 0
    /\ badTime = MaxPublishTime
    /\ ignore = <<>>
    /\ stdout = <<>>
    /\ installs = 1
    /\ numStepsLeft = <<>>

\* no timeline is on its way from a proxy to the driver
TransportIdle ==
    /\ driver = "part_000"
    /\ transport = "files"
    /\ recorded = <<>>
    /\ returned = NoTimeline

----------------------------------------------------------------------------
(* Bisection driver *)

\* (packageName, version) of the i-th candidate; the pairs are distinct
\* because the timeline is de-duplicated by packageName@version
EventNames ==
    << [packageName |-> "a", version |-> "1.0.1"],
       [packageName |-> "b", version |-> "2.3.0"],
       [packageName |-> "a", version |-> "1.1.0-rc.1"],
       [packageName |-> "@s/c", version |-> "0.1.0"],
       [packageName |-> "b", version |-> "2.3.1"],
       [packageName |-> "@s/c", version |-> "0.2.0"] >>

NoEvent == [packageName |-> "", version |-> "", time |-> InvalidDate]

\* timeline[i] with the source's 0-based index
At(tl, i) == tl[i + 1]

\* timeline.sort((a, b) => a.time.getTime() - b.time.getTime()) leaves the
\* events in ascending order of time; equal times are allowed
\* the largest number of candidates of a search that is followed to its end
MaxCandidates == 9

Timelines ==
    { tl \in UNION { [1..n -> 1..MaxPublishTime] : n \in 1..MaxTimeline } :
        \A i \in 1..(Len(tl) - 1) : tl[i] <= tl[i + 1] }

MakeTimeline(times) ==
    [i \in 1..Len(times) |->
        [packageName |-> EventNames[i].packageName,
         version |-> EventNames[i].version,
         time |-> times[i]]]

\* Math.ceil(Math.log2(d)) for d >= 1: the least k with 2^k >= d
CeilLog2(d) == CHOOSE k \in 0..d : 2^k >= d /\ \A j \in 0..(k - 1) : 2^j < d

\* Math.floor in place of Math.round
MidpointFloor(g, b) == g + ((b - g) \div 2)

\* Math.round(goodBeforeIndex + (badAfterIndex - goodBeforeIndex) / 2):
\* Math.round rounds a half towards +Infinity
Midpoint(g, b) == g + (((b - g) + 1) \div 2)

\* new Date(time.getTime()): the probe is taken at the publish instant itself
ProbeCutoffAtPublish(time) == time

\* new Date(time.getTime() - 1)
ProbeCutoff(time) == time - 1

\* the answer of the synthetic oracle: the project works iff the culprit
\* publication is hidden, i.e. the probe cutoff is before its publish time
SyntheticAnswer(cut, tl, c) == cut < At(tl, c).time

Init ==
    /\ pc = "loop"
    /\ \E times \in Timelines : timeline = MakeTimeline(times)
    /\ goodBeforeIndex = 0
    /\ badAfterIndex = Len(timeline) - 1
    /\ tryBeforeIndex = 0
    /\ ignoreNewerThan = InvalidDate
    /\ badEvent = NoEvent
    /\ culprit \in 0..(Len(timeline) - 1)
    /\ oracle \in {"synthetic", "arbitrary"}
    /\ rpc = "idle"
    /\ variant = "main.js"
    /\ cutoff = InvalidDate
    /\ obj = <<>>
    /\ timeByVersion = <<>>
    /\ changesMade = FALSE
    /\ input = <<>>
    /\ before = <<>>
    /\ ProbeIdle
    /\ yarn \in BOOLEAN
    /\ ProxyIdle
    /\ StartDone
    /\ TransportIdle

\* while (badAfterIndex > goodBeforeIndex) { tryBeforeIndex = ...;
\*   numStepsLeft = Math.ceil(Math.log2(badAfterIndex - goodBeforeIndex)),
\*   printed; ignoreNewerThan = new Date(time.getTime() - 1); ...
StartProbe ==
    /\ pc = "loop"
    /\ badAfterIndex > goodBeforeIndex
    /\ tryBeforeIndex' = Midpoint(goodBeforeIndex, badAfterIndex)
    /\ ignoreNewerThan' = ProbeCutoff(At(timeline, tryBeforeIndex').time)
    /\ pc' = "install"
    /\ ipc' = "called"
    /\ computeTimeline' = FALSE
    /\ child' = "none"
    /\ settled' = "pending"
    /\ installs' = installs + 1
    /\ numStepsLeft' = Append(numStepsLeft, CeilLog2(badAfterIndex - goodBeforeIndex))
    /\ UNCHANGED <<timeline, goodBeforeIndex, badAfterIndex, badEvent, culprit, oracle>>
    /\ UNCHANGED <<yarn, cacheDirExists, wrapped>>
    /\ UNCHANGED <<argv, goodTime, badTime, ignore, stdout>>
    /\ UNCHANGED <<rewriterVars, proxyVars, transportVars>>

\* await installDependencies({ ignoreNewerThan }) resolves
InstallSucceeds ==
    /\ pc = "install"
    /\ ipc = "returned"
    /\ pc' = "oracle"
    /\ ipc' = "idle"
    /\ UNCHANGED <<timeline, goodBeforeIndex, badAfterIndex, tryBeforeIndex,
                   ignoreNewerThan, badEvent, culprit, oracle>>
    /\ UNCHANGED <<computeTimeline, yarn, cacheDirExists, wrapped, child, settled>>
    /\ UNCHANGED <<rewriterVars, proxyVars, startVars, transportVars>>

\* a rejected install taken for the verdict "does not work"
InstallFailsAsVerdict ==
    /\ pc = "install"
    /\ ipc = "threw"
    /\ pc' = "loop"
    /\ ipc' = "idle"
    /\ badAfterIndex' = tryBeforeIndex - 1
    /\ UNCHANGED <<timeline, goodBeforeIndex, tryBeforeIndex,
                   ignoreNewerThan, badEvent, culprit, oracle>>
    /\ UNCHANGED <<computeTimeline, yarn, cacheDirExists, wrapped, child, settled>>
    /\ UNCHANGED <<rewriterVars, proxyVars, startVars, transportVars>>

\* await installDependencies(...) rejects (non-zero exit code or spawn
\* error), in the first probe or in a later one: the async main function
\* ends with the rejection
InstallFails ==
    /\ pc \in {"install", "firstInstall"}
    /\ ipc = "threw"
    /\ pc' = "aborted"
    /\ UNCHANGED <<timeline, goodBeforeIndex, badAfterIndex, tryBeforeIndex,
                   ignoreNewerThan, badEvent, culprit, oracle>>
    /\ UNCHANGED probeVars
    /\ UNCHANGED <<rewriterVars, proxyVars, startVars, transportVars>>

\* the two branches of the update exchanged
UpdateSwapped(works) ==
    /\ goodBeforeIndex' = IF works THEN goodBeforeIndex ELSE tryBeforeIndex
    /\ badAfterIndex' = IF works THEN tryBeforeIndex - 1 ELSE badAfterIndex

\* if (works) goodBeforeIndex = tryBeforeIndex; else badAfterIndex = tryBeforeIndex - 1;
Update(works) ==
    /\ goodBeforeIndex' = IF works THEN tryBeforeIndex ELSE goodBeforeIndex
    /\ badAfterIndex' = IF works THEN badAfterIndex ELSE tryBeforeIndex - 1

\* const works = await checkWorkingState(); followed by the update
CheckWorkingState ==
    /\ pc = "oracle"
    /\ \E works \in BOOLEAN :
        /\ oracle = "synthetic" => works = SyntheticAnswer(ignoreNewerThan, timeline, culprit)
        /\ Update(works)
    /\ pc' = "loop"
    /\ UNCHANGED <<timeline, tryBeforeIndex, ignoreNewerThan, badEvent, culprit, oracle>>
    /\ UNCHANGED <<rewriterVars, probeVars, proxyVars, startVars, transportVars>>

\* the loop condition fails: const badEvent = timeline[goodBeforeIndex]; report
ReportCulprit ==
    /\ pc = "loop"
    /\ ~(badAfterIndex > goodBeforeIndex)
    /\ badEvent' = At(timeline, goodBeforeIndex)
    /\ pc' = "done"
    /\ UNCHANGED <<timeline, goodBeforeIndex, badAfterIndex, tryBeforeIndex,
                   ignoreNewerThan, culprit, oracle>>
    /\ UNCHANGED <<rewriterVars, probeVars, proxyVars, startVars, transportVars>>

----------------------------------------------------------------------------
(* Probe runner: installDependencies *)

\* exit codes of the install subprocess: 0, and one that is not 0
ExitCodes == {0, 1}

\* the copies of the driver: src/unnamed/part_000 reads the timeline from
\* JSON files, src/npm-bisect.js from the standard error of the subprocess
Drivers == {"part_000", "npm-bisect.js"}

\* the two ways a proxy process hands over its timeline when it exits
Transports == {"files", "stderr"}

\* JSON.stringify of an Invalid Date
Null == -3

\* Date.prototype.toJSON, as JSON.stringify applies it to the time of an
\* event: the ISO string of the instant, null for an Invalid Date
TimeToJSON(time) == IF time = InvalidDate THEN Null ELSE time

\* new Date(time) on a value read from JSON: new Date(null) is the epoch
ReviveTime(json) == IF json = Null THEN 0 ELSE NewDate(json)

\* JSON.stringify of an array of events
TimelineToJSON(events) ==
    [i \in DOMAIN events |->
        [packageName |-> events[i].packageName,
         version |-> events[i].version,
         time |-> TimeToJSON(events[i].time)]]

\* JSON.parse(str).map(({ time, ...rest }) => ({ time: new Date(time), ...rest }))
ReviveTimeline(json) ==
    [i \in DOMAIN json |->
        [packageName |-> json[i].packageName,
         version |-> json[i].version,
         time |-> ReviveTime(json[i].time)]]

RECURSIVE Flatten(_)
\* flatten(arrays)
Flatten(arrays) ==
    IF arrays = <<>> THEN <<>> ELSE Head(arrays) \o Flatten(Tail(arrays))

RECURSIVE InsertByTime(_, _)
\* one step of the sort: e is moved ahead of the events at the end of the
\* sorted part for which the comparator returns a number above 0; the
\* difference of two getTime() values is NaN when one of the dates is
\* invalid, and a comparator result of NaN counts as 0
InsertByTime(sorted, e) ==
    IF sorted = <<>> THEN <<e>>
    ELSE LET last == sorted[Len(sorted)] IN
         IF DateGT(last.time, e.time)
         THEN Append(InsertByTime(SubSeq(sorted, 1, Len(sorted) - 1), e), last)
         ELSE Append(sorted, e)

RECURSIVE SortByTime(_)
\* timeline.sort((a, b) => a.time.getTime() - b.time.getTime()): ascending
\* in time, events of equal time in their former order
SortByTime(events) ==
    IF events = <<>> THEN <<>>
    ELSE InsertByTime(SortByTime(SubSeq(events, 1, Len(events) - 1)),
                      events[Len(events)])

RECURSIVE UniqInto(_, _)
\* one step of uniqBy: an event is kept unless its key has been seen
UniqInto(kept, events) ==
    IF events = <<>> THEN kept
    ELSE IF \E i \in DOMAIN kept :
                /\ kept[i].packageName = Head(events).packageName
                /\ kept[i].version = Head(events).version
         THEN UniqInto(kept, Tail(events))
         ELSE UniqInto(Append(kept, Head(events)), Tail(events))

\* uniqBy(timeline, ({ packageName, version }) => `${packageName}@${version}`)
UniqByNameVersion(events) == UniqInto(<<>>, events)

\* a proxy process of a probe that computes the timeline writes, when it
\* exits, the events it recorded as one JSON file of the output directory
TimelineFile(events) == TimelineToJSON(events)

\* process.exit of a proxy process of a probe that computes the timeline:
\* console.error(`\nNPM_BISECT_COMPUTE_TIMELINE:${JSON.stringify(uniquetimeline)}`)
StderrLine(events) == TimelineToJSON(UniqByNameVersion(SortByTime(events)))

\* what the proxy processes of a probe leave behind, in the order in which
\* they exit: files for the driver to glob, lines on the shared stderr
Emitted(how, compute, rec) ==
    [files |-> IF compute /\ how = "files"
               THEN [i \in DOMAIN rec |-> TimelineFile(rec[i])] ELSE <<>>,
     lines |-> IF compute /\ how = "stderr"
               THEN [i \in DOMAIN rec |-> StderrLine(rec[i])] ELSE <<>>]

\* part_000, exitCode === 0: if (computeTimeline) { glob '*.json', parse,
\* flatten, sort, uniqBy; resolve(timeline) } else { resolve() }
ReadTimelineFiles(compute, files) ==
    IF compute
    THEN [defined |-> TRUE,
          events |-> UniqByNameVersion(SortByTime(Flatten(
                        [i \in DOMAIN files |-> ReviveTimeline(files[i])])))]
    ELSE NoTimeline

\* npm-bisect.js, exitCode === 0: body.match(/^NPM_BISECT_COMPUTE_TIMELINE:(\[.*\])$/m)
\* finds the first such line; if (matchTimeline) resolve(parsed); resolve()
MatchTimeline(lines) ==
    IF lines = <<>> THEN NoTimeline
    ELSE [defined |-> TRUE, events |-> ReviveTimeline(lines[1])]

\* the value installDependencies resolves with after an exit code of 0
Collect(d, how, compute, rec) ==
    IF d = "part_000"
    THEN ReadTimelineFiles(compute, Emitted(how, compute, rec).files)
    ELSE MatchTimeline(Emitted(how, compute, rec).lines)

\* the second half of the events ahead of the first half, as two proxy
\* processes that have both recorded the first event
TwoProxies(events) ==
    << SubSeq(events, (Len(events) \div 2) + 1, Len(events)) \o <<events[1]>>,
       SubSeq(events, 1, Len(events) \div 2) >>

\* one proxy process that has handled the document of b and then the
\* document of a, whose time map holds a value that is not a date:
\* updateTimeline pushes new Date(value) for it, an Invalid Date
UnparseableBetween ==
    << [packageName |-> EventNames[2].packageName,
        version |-> EventNames[2].version, time |-> NewDate(MaxTime)],
       [packageName |-> EventNames[1].packageName,
        version |-> EventNames[1].version, time |-> NewDate(Unparseable)],
       [packageName |-> EventNames[3].packageName,
        version |-> EventNames[3].version, time |-> NewDate(1)] >>

\* what the proxy processes of one probe can have recorded: every package
\* metadata document that passes through a proxy adds the entries of its
\* time map, so one process holds all events, or two processes hold them
\* between them
Recordings ==
    { <<MakeTimeline(times)>> : times \in Timelines }
    \cup { TwoProxies(MakeTimeline(times)) :
              times \in { t \in Timelines : Len(t) >= 2 } }
    \cup { <<UnparseableBetween>> }

\* await rimrafAsync('node_modules/*'), then the cache directory is named
\* and, for a timeline-computing probe, the two directories are created
PrepareEnv ==
    /\ ipc = "called"
    /\ \E removed \in BOOLEAN :
        ipc' = IF ~removed THEN "threw"
               ELSE IF computeTimeline /\ driver = "part_000" THEN "mkdirCacheDir"
               ELSE "try"
    /\ UNCHANGED <<computeTimeline, yarn, cacheDirExists, wrapped, child, settled>>
    /\ UNCHANGED <<driverVars, rewriterVars, proxyVars, startVars, transportVars>>

\* await mkdirAsync(cacheDir), ahead of the try block
MkdirCacheDir ==
    /\ ipc = "mkdirCacheDir"
    /\ \E made \in BOOLEAN :
        /\ cacheDirExists' = made
        /\ ipc' = IF made THEN "mkdirTimelineOutputDir" ELSE "threw"
    /\ UNCHANGED <<computeTimeline, yarn, wrapped, child, settled>>
    /\ UNCHANGED <<driverVars, rewriterVars, proxyVars, startVars, transportVars>>

\* await mkdirAsync(timelineOutputDir), ahead of the try block
MkdirTimelineOutputDir ==
    /\ ipc = "mkdirTimelineOutputDir"
    /\ \E made \in BOOLEAN :
        ipc' = IF made THEN "try" ELSE "threw"
    /\ UNCHANGED <<computeTimeline, yarn, cacheDirExists, wrapped, child, settled>>
    /\ UNCHANGED <<driverVars, rewriterVars, proxyVars, startVars, transportVars>>

\* const unwrap = spawnWrap([main.js], env)
SpawnWrap ==
    /\ ipc = "try"
    /\ wrapped' = TRUE
    /\ ipc' = "wrapped"
    /\ UNCHANGED <<computeTimeline, yarn, cacheDirExists, child, settled>>
    /\ UNCHANGED <<driverVars, rewriterVars, proxyVars, startVars, transportVars>>

\* const p = childProcess.spawn(command, args, options)
Spawn ==
    /\ ipc = "wrapped"
    /\ child' = "running"
    /\ ipc' = "spawned"
    /\ UNCHANGED <<computeTimeline, yarn, cacheDirExists, wrapped, settled>>
    /\ UNCHANGED <<driverVars, rewriterVars, proxyVars, startVars, transportVars>>

\* p.on('error', reject): the subprocess could not be spawned; the 'exit'
\* handler has not run
ChildError ==
    /\ ipc = "spawned"
    /\ child' = "error"
    /\ settled' = "rejected"
    /\ ipc' = "finally"
    /\ UNCHANGED <<computeTimeline, yarn, cacheDirExists, wrapped>>
    /\ UNCHANGED <<driverVars, rewriterVars, proxyVars, startVars, transportVars>>

\* an 'exit' event may or may not follow an 'error' event; when it does the
\* 'exit' handler calls unwrap(), and its reject is a no-op on the promise
\* that 'error' has already rejected
ExitAfterError ==
    /\ child = "error"
    /\ child' = "errorExited"
    /\ wrapped' = FALSE
    /\ UNCHANGED <<ipc, computeTimeline, yarn, cacheDirExists, settled>>
    /\ UNCHANGED <<driverVars, rewriterVars, proxyVars, startVars, transportVars>>

\* (the proxies hand over what they recorded only in a probe that computes
\* the timeline; what they record in the other probes is left out)
\* p.on('exit', async exitCode => { unwrap(); ... }): the package manager
\* has run, against the cache directory it was pointed at; a probe that
\* computes the timeline reads the proxies' output files before it resolves,
\* and when that throws inside the handler the promise is never settled
ChildExit ==
    /\ ipc = "spawned"
    /\ \E exitCode \in ExitCodes, collected \in BOOLEAN :
        /\ child' = IF exitCode = 0 THEN "exitZero" ELSE "exitNonZero"
        /\ wrapped' = FALSE
        /\ cacheDirExists' = TRUE
        /\ (~collected) => (exitCode = 0 /\ computeTimeline)
        /\ settled' = IF exitCode # 0 THEN "rejected"
                       ELSE IF collected THEN "resolved" ELSE "pending"
        /\ ipc' = IF settled' = "pending" THEN "hung" ELSE "finally"
        /\ \E rec \in (IF computeTimeline THEN Recordings ELSE {<<>>}) :
            /\ recorded' = rec
            /\ returned' = IF settled' = "resolved"
                           THEN Collect(driver, transport, computeTimeline, rec)
                           ELSE NoTimeline
    /\ UNCHANGED <<computeTimeline, yarn, driver, transport>>
    /\ UNCHANGED <<driverVars, rewriterVars, proxyVars, startVars>>

\* finally { await rimrafAsync(cacheDir); } and the call returns or throws
Finally ==
    /\ ipc = "finally"
    /\ cacheDirExists' = FALSE
    /\ ipc' = IF settled = "resolved" THEN "returned" ELSE "threw"
    /\ UNCHANGED <<computeTimeline, yarn, wrapped, child, settled>>
    /\ UNCHANGED <<driverVars, rewriterVars, proxyVars, startVars, transportVars>>

\* installDependencies({ ignoreNewerThan, computeTimeline }) has been
\* called, by the first probe (computeTimeline: true) or by a later one
InitProbe ==
    /\ pc = "idle"
    /\ timeline = <<>>
    /\ goodBeforeIndex = 0
    /\ badAfterIndex = 0
    /\ tryBeforeIndex = 0
    /\ ignoreNewerThan \in 0..MaxPublishTime
    /\ badEvent = NoEvent
    /\ culprit = 0
    /\ oracle = "arbitrary"
    /\ rpc = "idle"
    /\ variant = "main.js"
    /\ cutoff = InvalidDate
    /\ obj = <<>>
    /\ timeByVersion = <<>>
    /\ changesMade = FALSE
    /\ input = <<>>
    /\ before = <<>>
    /\ ipc = "called"
    /\ computeTimeline \in BOOLEAN
    /\ yarn \in BOOLEAN
    /\ cacheDirExists = FALSE
    /\ wrapped = FALSE
    /\ child = "none"
    /\ settled = "pending"
    /\ ProxyIdle
    /\ StartDone
    /\ driver \in Drivers
    /\ transport \in Transports
    /\ recorded = <<>>
    /\ returned = NoTimeline

NextProbe ==
    \/ PrepareEnv
    \/ MkdirCacheDir
    \/ MkdirTimelineOutputDir
    \/ SpawnWrap
    \/ Spawn
    \/ ChildError
    \/ ExitAfterError
    \/ ChildExit
    \/ Finally

\* one call of installDependencies
SpecProbe == InitProbe /\ [][NextProbe]_vars

----------------------------------------------------------------------------
(* Bisection driver: the whole program *)

Next ==
    \/ StartProbe
    \/ PrepareEnv
    \/ SpawnWrap
    \/ Spawn
    \/ ChildError
    \/ ExitAfterError
    \/ ChildExit
    \/ Finally
    \/ InstallSucceeds
    \/ InstallFails
    \/ CheckWorkingState
    \/ ReportCulprit

Spec == Init /\ [][Next]_vars

\* n publications of one package, one instant apart
Candidates(n) ==
    [i \in 1..n |->
        [packageName |-> "p", version |-> ToString(i) \o ".0.0", time |-> i]]

\* the bisection over a list of up to MaxCandidates candidates
InitSearch ==
    /\ pc = "loop"
    /\ \E n \in 1..MaxCandidates : timeline = Candidates(n)
    /\ goodBeforeIndex = 0
    /\ badAfterIndex = Len(timeline) - 1
    /\ tryBeforeIndex = 0
    /\ ignoreNewerThan = InvalidDate
    /\ badEvent = NoEvent
    /\ culprit \in 0..(Len(timeline) - 1)
    /\ oracle \in {"synthetic", "arbitrary"}
    /\ rpc = "idle"
    /\ variant = "main.js"
    /\ cutoff = InvalidDate
    /\ obj = <<>>
    /\ timeByVersion = <<>>
    /\ changesMade = FALSE
    /\ input = <<>>
    /\ before = <<>>
    /\ ProbeIdle
    /\ yarn = FALSE
    /\ ProxyIdle
    /\ StartDone
    /\ TransportIdle

SpecSearch == InitSearch /\ [][Next]_vars

\* the driver is one sequential async function: every await it makes is
\* eventually resolved or rejected, so it keeps taking steps while it can
FairSpec == Spec /\ WF_vars(Next)

----------------------------------------------------------------------------
(* Bisection driver: from the command line to the bisection *)

\* an option that is not on the command line
Absent == -4

\* a string as the pieces the regular expression /^([^@]+)@(.+)$/ tells
\* apart: every "@" is a piece of its own, between them the longest runs
\* of other characters
Tokens(str) == IF str = "@s/c" THEN <<"@", "s/c">> ELSE <<str>>

\* the fields of event.version as semver reads them
SemVer(version) ==
    CASE version = "1.0.1" -> [major |-> 1, minor |-> 0, patch |-> 1, prerelease |-> FALSE]
      [] version = "2.3.0" -> [major |-> 2, minor |-> 3, patch |-> 0, prerelease |-> FALSE]
      [] version = "1.1.0-rc.1" -> [major |-> 1, minor |-> 1, patch |-> 0, prerelease |-> TRUE]
      [] version = "0.1.0" -> [major |-> 0, minor |-> 1, patch |-> 0, prerelease |-> FALSE]
      [] version = "2.3.1" -> [major |-> 2, minor |-> 3, patch |-> 1, prerelease |-> FALSE]
      [] version = "0.2.0" -> [major |-> 0, minor |-> 2, patch |-> 0, prerelease |-> FALSE]

\* semver.satisfies(version, range) for the ranges "*", "^1.0.0" and
\* ">=2.3.1": a version with a prerelease tag satisfies a range only through
\* a comparator that carries a prerelease tag on the same
\* major.minor.patch, and none of these does; semver.satisfies returns false
\* for a string that is not a range
Satisfies(version, range) ==
    LET v == SemVer(version)
    IN  CASE range = <<"*">> -> ~v.prerelease
          [] range = <<"^1.0.0">> -> ~v.prerelease /\ v.major = 1
          [] range = <<">=2.3.1">> ->
                /\ ~v.prerelease
                /\ \/ v.major > 2
                   \/ v.major = 2 /\ v.minor > 3
                   \/ v.major = 2 /\ v.minor = 3 /\ v.patch >= 1
          [] OTHER -> FALSE

\* let versionRange = '*'; const matchVersion = packageName.match(/^([^@]+)@(.+)$/);
\* if (matchVersion) { [, packageName, versionRange] = matchVersion; }
ParsePackageAndVersionRange(entry) ==
    IF Len(entry) >= 3 /\ entry[1] # "@" /\ entry[2] = "@"
    THEN [packageName |-> <<entry[1]>>, versionRange |-> SubSeq(entry, 3, Len(entry))]
    ELSE [packageName |-> entry, versionRange |-> <<"*">>]

\* event.packageName === spec.packageName && semver.satisfies(event.version, spec.versionRange)
MatchesPackageSpec(event, spec) ==
    /\ Tokens(event.packageName) = spec.packageName
    /\ Satisfies(event.version, spec.versionRange)

\* a <= b on two Date objects: false when either is an Invalid Date
DateLE(a, b) == a # InvalidDate /\ b # InvalidDate /\ a <= b

\* the window closed at its lower end
WindowClosedBelow(events, good, bad) ==
    SelectSeq(events, LAMBDA e : DateLE(good, e.time) /\ DateLE(e.time, bad))

\* timeline.filter(({ time }) => time > goodTime && time <= badTime)
Window(events, good, bad) ==
    SelectSeq(events, LAMBDA e : DateGT(e.time, good) /\ DateLE(e.time, bad))

\* timeline.filter(event => onlySpecs.some(spec => matchesPackageSpec(event, spec)))
\* when only.length > 0
OnlyFilter(events, only) ==
    IF Len(only) > 0
    THEN SelectSeq(events, LAMBDA e :
            \E i \in DOMAIN only :
                MatchesPackageSpec(e, ParsePackageAndVersionRange(only[i])))
    ELSE events

\* timeline.filter(event => !ignoreSpecs.some(spec => matchesPackageSpec(event, spec)))
IgnoreFilter(events, ign) ==
    SelectSeq(events, LAMBDA e :
        ~\E i \in DOMAIN ign :
            MatchesPackageSpec(e, ParsePackageAndVersionRange(ign[i])))

\* uniq(timeline.map(event => event.packageName))
PackageNames(events) ==
    LET first == { i \in DOMAIN events :
                     \A j \in 1..(i - 1) : events[j].packageName # events[i].packageName }
    IN  SelectSeq([i \in DOMAIN events |->
                      IF i \in first THEN events[i].packageName ELSE ""],
                  LAMBDA n : n # "")

\* the answers of the checkbox prompt: the values of any of its choices,
\* in the order of the choices
CheckboxAnswers(names) ==
    { SelectSeq([i \in DOMAIN names |-> IF i \in ticked THEN Tokens(names[i]) ELSE <<>>],
                LAMBDA t : t # <<>>) : ticked \in SUBSET DOMAIN names }

\* --good: not given, not a date, or an instant
GoodArgs == {Absent, Unparseable, 0, 1}

\* --bad: not given, not a date, or an instant
BadArgs == {Absent, Unparseable, MaxPublishTime - 1}

\* the answers the input prompt accepts:
\* validate: str => !isNaN(new Date(str).getTime())
Validated(answers) == { a \in answers : a # Absent /\ NewDate(a) # InvalidDate }

\* --only and --ignore: lists of name or name@range
FilterArgs ==
    { [only |-> <<>>, ignore |-> <<>>],
      [only |-> <<>>, ignore |-> << <<"a">> >>],
      [only |-> << <<"a">>, <<"b", "@", ">=2.3.1">> >>, ignore |-> <<>>],
      [only |-> <<>>, ignore |-> << <<"@", "s/c", "@", "*">> >>],
      [only |-> << <<"a", "@", "^1.0.0">> >>, ignore |-> << <<"b", "@", "next">> >>] }

\* the command lines
Argvs ==
    { [good |-> g, bad |-> b, only |-> f.only, ignore |-> f.ignore, candidates |-> c] :
        g \in GoodArgs, b \in BadArgs, f \in FilterArgs, c \in BOOLEAN }

\* the process has started: yargs has parsed the command line
InitMain ==
    /\ pc = "start"
    /\ timeline = <<>>
    /\ goodBeforeIndex = 0
    /\ badAfterIndex = 0
    /\ tryBeforeIndex = 0
    /\ ignoreNewerThan = InvalidDate
    /\ badEvent = NoEvent
    /\ culprit = 0
    /\ oracle = "arbitrary"
    /\ rpc = "idle"
    /\ variant = "main.js"
    /\ cutoff = InvalidDate
    /\ obj = <<>>
    /\ timeByVersion = <<>>
    /\ changesMade = FALSE
    /\ input = <<>>
    /\ before = <<>>
    /\ ProbeIdle
    /\ yarn = FALSE
    /\ ProxyIdle
    /\ argv \in Argvs
    /\ goodTime = InvalidDate
    /\ badTime = InvalidDate
    /\ ignore = argv.ignore
    /\ stdout = <<>>
    /\ installs = 0
    /\ numStepsLeft = <<>>
    /\ TransportIdle

\* let goodTime = new Date(good || (await inquirer.prompt(...)).good), the
\* same for badTime, and the first probe is started:
\* installDependencies({ ignoreNewerThan: goodTime, computeTimeline: true })
StartFirstProbe ==
    /\ pc = "start"
    /\ \E g \in (IF argv.good = Absent THEN Validated(GoodArgs) ELSE {argv.good}),
          b \in (IF argv.bad = Absent THEN Validated(BadArgs) ELSE {argv.bad}) :
        /\ goodTime' = NewDate(g)
        /\ badTime' = NewDate(b)
    /\ ignoreNewerThan' = goodTime'
    /\ computeTimeline' = TRUE
    /\ pc' = "firstInstall"
    /\ ipc' = "called"
    /\ child' = "none"
    /\ settled' = "pending"
    /\ installs' = installs + 1
    /\ UNCHANGED <<timeline, goodBeforeIndex, badAfterIndex, tryBeforeIndex,
                   badEvent, culprit, oracle>>
    /\ UNCHANGED <<yarn, cacheDirExists, wrapped>>
    /\ UNCHANGED <<argv, ignore, stdout, numStepsLeft>>
    /\ UNCHANGED <<rewriterVars, proxyVars, transportVars>>

\* the first probe has returned:
\* timeline = timeline.filter(({ time }) => time > goodTime && time <= badTime),
\* a TypeError when the probe has returned undefined
FilterWindow ==
    /\ pc = "firstInstall"
    /\ ipc = "returned"
    /\ ipc' = "idle"
    /\ IF returned.defined
       THEN /\ timeline' = Window(returned.events, goodTime, badTime)
            /\ pc' = "windowed"
       ELSE /\ timeline' = timeline
            /\ pc' = "aborted"
    /\ UNCHANGED <<goodBeforeIndex, badAfterIndex, tryBeforeIndex,
                   ignoreNewerThan, badEvent, culprit, oracle>>
    /\ UNCHANGED <<computeTimeline, yarn, cacheDirExists, wrapped, child, settled>>
    /\ UNCHANGED <<rewriterVars, proxyVars, startVars, transportVars>>

\* if (candidates) { for (... of timeline) console.log(...); process.exit(); }
PrintCandidates ==
    /\ pc = "windowed"
    /\ argv.candidates
    /\ stdout' = timeline
    /\ pc' = "exited"
    /\ UNCHANGED <<timeline, goodBeforeIndex, badAfterIndex, tryBeforeIndex,
                   ignoreNewerThan, badEvent, culprit, oracle>>
    /\ UNCHANGED <<argv, goodTime, badTime, ignore, installs, numStepsLeft>>
    /\ UNCHANGED <<rewriterVars, probeVars, proxyVars, transportVars>>

\* the --only filter, the checkbox prompt when neither list is given and
\* more than one package is left, and the --ignore filter
FilterOnlyIgnore ==
    /\ pc = "windowed"
    /\ ~argv.candidates
    /\ LET selected == OnlyFilter(timeline, argv.only)
           packageNames == PackageNames(selected)
       IN  \E answer \in (IF /\ Len(packageNames) > 1
                             /\ Len(ignore) = 0
                             /\ Len(argv.only) = 0
                          THEN CheckboxAnswers(packageNames) ELSE {ignore}) :
               /\ ignore' = answer
               /\ timeline' = IgnoreFilter(selected, answer)
    /\ pc' = "filtered"
    /\ UNCHANGED <<goodBeforeIndex, badAfterIndex, tryBeforeIndex,
                   ignoreNewerThan, badEvent, culprit, oracle>>
    /\ UNCHANGED <<argv, goodTime, badTime, stdout, installs, numStepsLeft>>
    /\ UNCHANGED <<rewriterVars, probeVars, proxyVars, transportVars>>

\* if (timeline.length === 0) { console.log('No relevant packages ...'); return; }
NoRelevantPackages ==
    /\ pc = "filtered"
    /\ Len(timeline) = 0
    /\ pc' = "noRelevant"
    /\ UNCHANGED <<timeline, goodBeforeIndex, badAfterIndex, tryBeforeIndex,
                   ignoreNewerThan, badEvent, culprit, oracle>>
    /\ UNCHANGED <<rewriterVars, probeVars, proxyVars, startVars, transportVars>>

\* the bisection is entered with an empty timeline too
BeginBisectionUnguarded ==
    /\ pc = "filtered"
    /\ goodBeforeIndex' = 0
    /\ badAfterIndex' = Len(timeline) - 1
    /\ pc' = "loop"
    /\ UNCHANGED <<timeline, tryBeforeIndex, ignoreNewerThan, badEvent, culprit, oracle>>
    /\ UNCHANGED <<rewriterVars, probeVars, proxyVars, startVars, transportVars>>

\* the timeline is not empty:
\* let goodBeforeIndex = 0; let badAfterIndex = timeline.length - 1;
BeginBisection ==
    /\ pc = "filtered"
    /\ Len(timeline) > 0
    /\ goodBeforeIndex' = 0
    /\ badAfterIndex' = Len(timeline) - 1
    /\ pc' = "loop"
    /\ UNCHANGED <<timeline, tryBeforeIndex, ignoreNewerThan, badEvent, culprit, oracle>>
    /\ UNCHANGED <<rewriterVars, probeVars, proxyVars, startVars, transportVars>>

NextMain ==
    \/ StartFirstProbe
    \/ PrepareEnv
    \/ MkdirCacheDir
    \/ MkdirTimelineOutputDir
    \/ SpawnWrap
    \/ Spawn
    \/ ChildError
    \/ ExitAfterError
    \/ ChildExit
    \/ Finally
    \/ InstallFails
    \/ FilterWindow
    \/ PrintCandidates
    \/ FilterOnlyIgnore
    \/ NoRelevantPackages
    \/ BeginBisection
    \/ StartProbe
    \/ InstallSucceeds
    \/ CheckWorkingState
    \/ ReportCulprit

\* the driver from its command line to its last line
SpecMain == InitMain /\ [][NextMain]_vars

----------------------------------------------------------------------------
(* Metadata rewriter *)

\* the copies of main.js: src/main.js, and src/unnamed/part_001 (whose
\* rewriter is the same as that of src/unnamed/part_002)
Variants == {"main.js", "part_001"}

\* version !== 'modified' && version !== 'changed'   (main.js)
\* version !== 'modified' && version !== 'created'   (part_001)
SkippedKeys(v) ==
    IF v = "main.js" THEN {"modified", "changed"} ELSE {"modified", "created"}

\* the value of a binding that was never assigned
Undefined == "undefined"

\* the delete of the time-map entry left out
DeleteTimeKept(entries, version) == entries

\* delete timeByVersion[version]: the other entries keep their order
DeleteTime(entries, version) ==
    SelectSeq(entries, LAMBDA e : e.version # version)

\* the delete of the versions entry left out
DeleteVersionKept(versions, version) == versions

\* delete obj.versions[version]: a no-op when the key is absent
DeleteVersion(versions, version) ==
    [k \in (DOMAIN versions) \ {version} |-> versions[k]]

\* the comparison written the wrong way round: time < ignoreNewerThan
IsNewerReversed(time, c) == DateGT(c, time)

\* an Invalid Date taken for a date after the cutoff
IsNewerOrInvalid(time, c) == time = InvalidDate \/ DateGT(time, c)

\* time > ignoreNewerThan
IsNewer(time, c) == DateGT(time, c)

\* !latestPreservedVersionTime || time > latestPreservedVersionTime
\* (a Date object is truthy even when it is an Invalid Date)
IsLaterPreserved(st, time) ==
    \/ ~st.latestSet
    \/ DateGT(time, st.latestPreservedVersionTime)

\* one iteration of for (const version of Object.keys(timeByVersion))
LoopBody(st, e, c, v) ==
    IF e.version \in SkippedKeys(v) THEN st
    ELSE LET time == NewDate(e.time) IN
         IF IsNewer(time, c)
         THEN [st EXCEPT !.time = DeleteTime(@, e.version),
                         !.versions = DeleteVersion(@, e.version),
                         !.changesMade = TRUE,
                         !.deletedVersions = @ \cup {e.version}]
         ELSE IF IsLaterPreserved(st, time)
              THEN [st EXCEPT !.latestSet = TRUE,
                              !.latestPreservedVersion = e.version,
                              !.latestPreservedVersionTime = time]
              ELSE st

\* the loop runs over the keys as Object.keys returned them before the
\* first deletion; string keys come in insertion order
RECURSIVE Loop(_, _, _, _, _)
Loop(st, keys, i, c, v) ==
    IF i > Len(keys) THEN st
    ELSE Loop(LoopBody(st, keys[i], c, v), keys, i + 1, c, v)

\* obj['dist-tags'] && obj['dist-tags'].latest
HasLatest(o) ==
    /\ o.hasDistTags
    /\ "latest" \in DOMAIN o.distTags
    /\ o.distTags["latest"] # Undefined

\* obj['dist-tags'] = { latest: latestPreservedVersion }
SetLatestOnly(distTags, version) == [t \in {"latest"} |-> version]

\* obj['dist-tags'].latest = latestPreservedVersion
SetLatest(distTags, version) == [distTags EXCEPT !["latest"] = version]

\* removeVersionsFromPackageMetadata(obj, timeByVersion) with the module
\* level ignoreNewerThan = c; the result holds the two mutated arguments and
\* the return value
RemoveVersionsFromPackageMetadata(o, tbv, c, v) ==
    IF ~(tbv.defined /\ o.hasVersions)
    THEN [obj |-> o, timeByVersion |-> tbv, changesMade |-> FALSE]
    ELSE LET st == Loop([time |-> tbv.entries,
                         versions |-> o.versions,
                         changesMade |-> FALSE,
                         deletedVersions |-> {},
                         latestSet |-> FALSE,
                         latestPreservedVersion |-> Undefined,
                         latestPreservedVersionTime |-> InvalidDate],
                        tbv.entries, 1, c, v)
             o1 == [o EXCEPT !.versions = st.versions]
             o2 == IF st.changesMade /\ HasLatest(o1)
                      /\ o1.distTags["latest"] \in st.deletedVersions
                   THEN [o1 EXCEPT !.distTags = SetLatest(@, st.latestPreservedVersion)]
                   ELSE o1
         IN [obj |-> o2,
             timeByVersion |-> [tbv EXCEPT !.entries = st.time],
             changesMade |-> st.changesMade]

(* Inputs of the rewriter *)

VersionKeys == {"1.0.0", "2.0.0"}
TimeMapKeys == VersionKeys \cup {"modified", "created", "changed"}
RawTimes == {Unparseable} \cup 1..MaxTime
Cutoffs == {InvalidDate} \cup 0..MaxTime

\* the per-version object of the registry document, opaque to the rewriter
VersionObject(k) == [version |-> k, dist |-> "tarball"]

\* a time map: the keys of a JSON object are distinct
TimeMaps ==
    { es \in UNION { [1..n -> [version : TimeMapKeys, time : RawTimes]] :
                       n \in 0..MaxTimeKeys } :
        \A i, j \in 1..Len(es) : es[i].version = es[j].version => i = j }

\* dist-tags: with or without latest, and always with one other tag
DistTagMaps ==
    { [t \in {"latest", "next"} |-> IF t = "latest" THEN k ELSE "1.0.0"] : k \in VersionKeys }

NoLatest == [t \in {"next"} |-> "1.0.0"]

Document(hv, ks, hd, dt) ==
    [name |-> "pkg", readme |-> "text",
     hasVersions |-> hv, versions |-> [k \in ks |-> VersionObject(k)],
     hasDistTags |-> hd, distTags |-> dt]

Documents ==
    { Document(TRUE, ks, TRUE, dt) : ks \in SUBSET VersionKeys, dt \in DistTagMaps }
    \cup
    { Document(TRUE, VersionKeys, TRUE, NoLatest),
      Document(TRUE, VersionKeys, FALSE, <<>>),
      Document(FALSE, {}, TRUE, NoLatest) }

\* timeByVersion is undefined when the document has no time map
TimeArguments ==
    { [defined |-> FALSE, entries |-> <<>>] } \cup
    { [defined |-> TRUE, entries |-> es] : es \in TimeMaps }

NoDocument == Document(FALSE, {}, FALSE, <<>>)
NoTime == [defined |-> FALSE, entries |-> <<>>]

\* the proxy process of copy v of main.js has started:
\* const ignoreNewerThan = new Date(process.env.NPM_BISECT_IGNORE_NEWER_THAN)
InitRewriterOf(v) ==
    /\ pc = "idle"
    /\ timeline = <<>>
    /\ goodBeforeIndex = 0
    /\ badAfterIndex = 0
    /\ tryBeforeIndex = 0
    /\ ignoreNewerThan = InvalidDate
    /\ badEvent = NoEvent
    /\ culprit = 0
    /\ oracle = "arbitrary"
    /\ rpc = "idle"
    /\ variant = v
    /\ cutoff \in Cutoffs
    /\ obj = NoDocument
    /\ timeByVersion = NoTime
    /\ changesMade = FALSE
    /\ input = [obj |-> NoDocument, timeByVersion |-> NoTime]
    /\ before = input
    /\ ProbeIdle
    /\ yarn = FALSE
    /\ ProxyIdle
    /\ StartDone
    /\ TransportIdle

\* const changesMade = removeVersionsFromPackageMetadata(obj, timeByVersion)
Apply(o, tbv) ==
    LET r == RemoveVersionsFromPackageMetadata(o, tbv, cutoff, variant) IN
    /\ before' = [obj |-> o, timeByVersion |-> tbv]
    /\ obj' = r.obj
    /\ timeByVersion' = r.timeByVersion
    /\ changesMade' = r.changesMade

\* a registry document has been parsed (obj = JSON.parse(...), timeByVersion
\* = obj.time) and the rewriter is called on it
Rewrite ==
    /\ rpc = "idle"
    /\ \E o \in Documents, tbv \in TimeArguments :
        /\ input' = [obj |-> o, timeByVersion |-> tbv]
        /\ Apply(o, tbv)
    /\ rpc' = "rewritten"
    /\ UNCHANGED <<variant, cutoff>>
    /\ UNCHANGED <<driverVars, probeVars, proxyVars, startVars, transportVars>>

\* the same call made again on the document it has already rewritten
RewriteAgain ==
    /\ rpc = "rewritten"
    /\ Apply(obj, timeByVersion)
    /\ rpc' = "rewrittenTwice"
    /\ UNCHANGED <<variant, cutoff, input>>
    /\ UNCHANGED <<driverVars, probeVars, proxyVars, startVars, transportVars>>

NextRewriter ==
    \/ Rewrite
    \/ RewriteAgain

\* the rewriter of src/unnamed/part_001 (and of src/unnamed/part_002)
SpecRewriter == InitRewriterOf("part_001") /\ [][NextRewriter]_vars

\* the rewriter of src/main.js
SpecRewriterMain == InitRewriterOf("main.js") /\ [][NextRewriter]_vars

----------------------------------------------------------------------------
(* Intercept proxy: the 'connect' and 'request' handlers of main.js *)

\* most intercepted requests the package manager has in flight
MaxRequests == 2

\* ['registry.npmjs.org', 'registry.yarnpkg.com'].includes(hostname)  (part_001)
\* hostname === 'registry.npmjs.org'                                  (main.js)
RegistryHostnames(v) ==
    IF v = "main.js" THEN {"registry.npmjs.org"}
    ELSE {"registry.npmjs.org", "registry.yarnpkg.com"}

IsRegistryHostname(hostname, v) == hostname \in RegistryHostnames(v)

\* hosts the package manager connects to: its registry (yarn has its own)
\* and the host of a dependency that is fetched by URL
Hostnames(y) ==
    {IF y THEN "registry.yarnpkg.com" ELSE "registry.npmjs.org", "github.com"}

\* request paths of the package manager
Urls == {"/messy", "/lodash"}

\* the Accept header npm sends for package metadata
CompactAccept ==
    "application/vnd.npm.install-v1+json; q=1.0, application/json; q=0.8, */*"

\* the compact media type with no other media type listed
CompactAlone == "application/vnd.npm.install-v1+json"

Accepts == {CompactAccept, CompactAlone, "application/json"}

\* the request line and Accept header of a client request: a path with
\* each way of declaring the compact variant, and one request without it
RequestLines ==
    { l \in [url : Urls, accept : Accepts] :
        /\ l.accept = "application/json" => l.url = "/lodash"
        /\ l.accept = CompactAlone => l.url = "/messy" }

\* the headers of a client request besides Accept
ClientHeaders == {"accept-encoding", "if-none-match", "connection", "user-agent"}

\* delete req.headers['accept-encoding']; delete req.headers['if-none-match'];
\* delete req.headers.connection
StrippedHeaders == {"accept-encoding", "if-none-match", "connection"}

\* accept.includes('application/vnd.npm.install-v1+json')
DeclaresCompact(accept) == accept \in {CompactAccept, CompactAlone}

\* the final else branch intercepting instead of bypassing
ConnectDecisionNoDefaultBypass(flag, servername, v) ==
    IF flag THEN [bypassed |-> TRUE, flag |-> FALSE]
    ELSE IF IsRegistryHostname(servername, v) THEN [bypassed |-> FALSE, flag |-> TRUE]
    ELSE [bypassed |-> FALSE, flag |-> flag]

\* mitm.on('connect', (socket, opts) => ...): whether socket.bypass() is
\* called, and the value the handler leaves in bypassNextConnect
ConnectDecision(flag, servername, v) ==
    IF flag THEN [bypassed |-> TRUE, flag |-> FALSE]
    ELSE IF IsRegistryHostname(servername, v) THEN [bypassed |-> FALSE, flag |-> TRUE]
    ELSE [bypassed |-> TRUE, flag |-> flag]

\* the assignment ahead of the upstream request left out
FlagForDialLeft(flag) == flag

\* bypassNextConnect = true, ahead of performRequest
FlagForDial(flag) == TRUE

\* performRequest calls http(s).request, which opens the upstream connection
\* in the same turn of the event loop: the 'connect' handler runs on it
Dial(flag, hostname, v, which) ==
    LET set == FlagForDial(flag)
        d == ConnectDecision(set, hostname, v)
    IN [origin |-> "proxy", dial |-> which, servername |-> hostname,
        flagBefore |-> set, bypassed |-> d.bypassed, flagAfter |-> d.flag]

(* Bodies and responses *)

\* a body is what JSON.parse makes of it, and the layout it is written in
NoBody == [parses |-> FALSE, obj |-> NoDocument, time |-> NoTime, layout |-> "none"]

\* a body that JSON.parse rejects
Garbage == [parses |-> FALSE, obj |-> NoDocument, time |-> NoTime, layout |-> "text"]

\* the registry writes its documents without white space
RegistryBody(o, tbv) == [parses |-> TRUE, obj |-> o, time |-> tbv, layout |-> "compact"]

\* Buffer.from(JSON.stringify(obj, undefined, '  '))
Stringify(o, tbv) == [parses |-> TRUE, obj |-> o, time |-> tbv, layout |-> "indented"]

\* number of members of the document at each nesting level
Members(body) ==
    (IF body.obj.hasVersions THEN Cardinality(DOMAIN body.obj.versions) ELSE 0)
    + (IF body.obj.hasDistTags THEN Cardinality(DOMAIN body.obj.distTags) ELSE 0)
    + (IF body.time.defined THEN Len(body.time.entries) ELSE 0)

\* Buffer.prototype.length: the number of bytes of the body; the indented
\* layout spends a line break and four spaces more on every member
ByteLength(body) ==
    IF ~body.parses THEN 9
    ELSE 40 + 30 * Members(body)
         + (IF body.layout = "indented" THEN 12 + 5 * Members(body) ELSE 0)

SetHeader(headers, name, value) ==
    [n \in (DOMAIN headers) \cup {name} |-> IF n = name THEN value ELSE headers[n]]

DeleteHeader(headers, name) ==
    [n \in (DOMAIN headers) \ {name} |-> headers[n]]

NoHeaders == [n \in {} |-> ""]

NoResponse == [statusCode |-> 0, headers |-> NoHeaders, body |-> NoBody]

\* an upstream response: with a Content-Length, or chunked
Framed(statusCode, contentType, framing, body) ==
    [statusCode |-> statusCode,
     headers |->
        IF framing = "length"
        THEN [n \in {"content-type", "content-length"} |->
                 IF n = "content-type" THEN contentType ELSE ToString(ByteLength(body))]
        ELSE [n \in {"content-type", "transfer-encoding", "content-encoding", "connection"} |->
                 CASE n = "content-type" -> contentType
                   [] n = "transfer-encoding" -> "chunked"
                   [] n = "content-encoding" -> "identity"
                   [] OTHER -> "keep-alive"],
     body |-> body]

\* the registry document of the package asked for, and its time map
RegistryDocument ==
    Document(TRUE, VersionKeys, TRUE,
             [t \in {"latest", "next"} |-> IF t = "latest" THEN "2.0.0" ELSE "1.0.0"])

RegistryTime ==
    [defined |-> TRUE,
     entries |-> << [version |-> "modified", time |-> 2],
                    [version |-> "1.0.0", time |-> 1],
                    [version |-> "2.0.0", time |-> 2] >>]

\* what the registry may answer: the full document (chunked), the compact
\* document (no time map), a JSON response whose body does not parse, an
\* error page
UpstreamResponses ==
    { Framed(200, "application/json", "chunked",
             RegistryBody(RegistryDocument, RegistryTime)),
      Framed(200, "application/vnd.npm.install-v1+json", "length",
             RegistryBody(RegistryDocument, NoTime)),
      Framed(200, "application/json", "length", Garbage),
      Framed(503, "text/html", "length", Garbage) }

\* /json/.test(responseResult.headers['content-type'])
IsJson(headers) ==
    /\ "content-type" \in DOMAIN headers
    /\ headers["content-type"] \in {"application/json", "application/vnd.npm.install-v1+json"}

(* The handlers *)

\* an intercepted connection on which no request has been read yet
NewRequest(hostname) ==
    [pos |-> "reading", host |-> hostname, url |-> "", accept |-> "",
     upstreamAccept |-> "", upstreamHeaders |-> {},
     primaryState |-> "none", primary |-> NoResponse,
     secondState |-> "none", secondAccept |-> "", secondPath |-> "",
     second |-> NoResponse,
     rewriterCalled |-> FALSE, rewriterTime |-> NoTime, changesMade |-> FALSE,
     toClient |-> "nothing", response |-> NoResponse]

\* req.headers.accept after the request has been normalised
NormalisedAccept(v, url, accept) ==
    IF v = "main.js"
    THEN IF url = "/messy" /\ accept = CompactAccept THEN "application/json" ELSE accept
    ELSE IF DeclaresCompact(accept) THEN "application/json" ELSE accept

\* the other headers of req.headers after the request has been normalised
NormalisedHeaders(v, hostname) ==
    IF IsRegistryHostname(hostname, v) THEN ClientHeaders \ StrippedHeaders
    ELSE ClientHeaders

\* the package manager opens a connection: the 'connect' handler decides,
\* and a connection that is not bypassed is terminated by the proxy
PackageManagerConnects ==
    /\ rpc = "proxy"
    /\ \E servername \in Hostnames(yarn) :
        LET d == ConnectDecision(bypassNextConnect, servername, variant) IN
        /\ d.bypassed \/ Len(requests) < MaxRequests
        /\ bypassNextConnect' = d.flag
        /\ lastConnect' = [origin |-> "packageManager", dial |-> "none",
                           servername |-> servername,
                           flagBefore |-> bypassNextConnect,
                           bypassed |-> d.bypassed, flagAfter |-> d.flag]
        /\ requests' = IF d.bypassed THEN requests
                       ELSE Append(requests, NewRequest(servername))
    /\ UNCHANGED <<driverVars, rewriterVars, probeVars, startVars, transportVars>>

\* the 'request' handler up to its first upstream request: the request body
\* has been read (a stream error is thrown and ends the handler), the flag
\* is set, the headers are normalised and performRequest dials upstream
ReadRequest(i) ==
    /\ requests[i].pos = "reading"
    /\ \E l \in RequestLines, err \in BOOLEAN :
        LET url == l.url
            accept == l.accept
        IN
        IF err
        THEN /\ requests' = [requests EXCEPT ![i].pos = "thrown"]
             /\ UNCHANGED <<bypassNextConnect, lastConnect>>
        ELSE LET c == Dial(bypassNextConnect, requests[i].host, variant, "primary") IN
             /\ requests' = [requests EXCEPT
                               ![i].pos = "awaitPrimary",
                               ![i].url = url,
                               ![i].accept = accept,
                               ![i].upstreamAccept = NormalisedAccept(variant, url, accept),
                               ![i].upstreamHeaders =
                                   NormalisedHeaders(variant, requests[i].host)]
             /\ lastConnect' = c
             /\ bypassNextConnect' = c.flagAfter
    /\ UNCHANGED <<driverVars, rewriterVars, probeVars, startVars, transportVars>>

\* the response without the update of content-length
EditHeadersLengthKept(headers, body) ==
    SetHeader(DeleteHeader(DeleteHeader(headers, "transfer-encoding"),
                           "content-encoding"),
              "connection", "close")

\* the header edits made on a rewritten response
EditHeaders(headers, body) ==
    SetHeader(DeleteHeader(DeleteHeader(
                  SetHeader(headers, "content-length", ToString(ByteLength(body))),
                  "transfer-encoding"), "content-encoding"),
              "connection", "close")

\* the time map as the rewriter has left it handed to updateTimeline
TimelineSourceRewritten(tbv, res) == res.timeByVersion

\* if (timeByVersion) { updateTimeline(obj.name, timeByVersion); } stands
\* ahead of the call of the rewriter: updateTimeline reads the map as it
\* was received
TimelineSource(tbv, res) == tbv

\* updateTimeline(packageName, timeByVersion): every key but 'modified' and
\* 'created' is pushed with new Date(timeByVersion[version]); src/main.js
\* keeps no timeline
UpdateTimeline(tl, packageName, tbv, v) ==
    IF v = "main.js" \/ ~tbv.defined THEN tl
    ELSE tl \o [i \in DOMAIN SelectSeq(tbv.entries,
                                       LAMBDA e : e.version \notin {"modified", "created"}) |->
                  LET e == SelectSeq(tbv.entries,
                                     LAMBDA x : x.version \notin {"modified", "created"})[i]
                  IN  [packageName |-> packageName,
                       version |-> e.version,
                       time |-> NewDate(e.time)]]

\* the timeline of the proxy process after the callback has handled the
\* document o with the time map tbv
Record(o, tbv) ==
    LET res == RemoveVersionsFromPackageMetadata(o, tbv, cutoff, variant) IN
    recorded' = [recorded EXCEPT
                    ![1] = UpdateTimeline(@, o.name, TimelineSource(tbv, res), variant)]

\* the header edits of a rewritten response made on every response
RespondEdited(r, resp) ==
    [r EXCEPT !.pos = "responded", !.toClient = "response",
              !.response = [resp EXCEPT !.headers = EditHeaders(resp.headers, resp.body)]]

\* res.statusCode = ...; res.setHeader(...) for every header; res.end(body)
Respond(r, resp) ==
    [r EXCEPT !.pos = "responded", !.toClient = "response", !.response = resp]

\* removeVersionsFromPackageMetadata(obj, timeByVersion), the edit of the
\* response when changes were made, and the answer to the client; own tells
\* whether timeByVersion is obj.time itself and so part of the document
RewriteAndRespond(r, o, tbv, own) ==
    LET res == RemoveVersionsFromPackageMetadata(o, tbv, cutoff, variant)
        body == Stringify(res.obj, IF own THEN res.timeByVersion ELSE NoTime)
        r1 == [r EXCEPT !.rewriterCalled = TRUE, !.rewriterTime = tbv,
                        !.changesMade = res.changesMade]
    IN IF res.changesMade
       THEN Respond(r1, [statusCode |-> r.primary.statusCode,
                         headers |-> EditHeaders(r.primary.headers, body),
                         body |-> body])
       ELSE Respond(r1, r.primary)

\* await performRequest(upstreamRequestOptions) settles: a rejection is
\* emitted as 'error' on the client socket, a response schedules the
\* setImmediate callback
PrimarySettles(i) ==
    /\ requests[i].pos = "awaitPrimary"
    /\ \/ requests' = [requests EXCEPT ![i].pos = "errored",
                                       ![i].primaryState = "failed",
                                       ![i].toClient = "error"]
       \/ \E resp \in UpstreamResponses :
            requests' = [requests EXCEPT ![i].pos = "immediate",
                                         ![i].primaryState = "received",
                                         ![i].primary = resp]
    /\ UNCHANGED <<bypassNextConnect, lastConnect>>
    /\ UNCHANGED <<driverVars, rewriterVars, probeVars, startVars, transportVars>>

\* the setImmediate callback up to its end or to the second upstream
\* request; an exception thrown in it rejects a promise nobody handles
Immediate(i) ==
    LET r == requests[i]
        body == r.primary.body
    IN
    /\ r.pos = "immediate"
    /\ IF ~(IsRegistryHostname(r.host, variant) /\ IsJson(r.primary.headers))
       THEN /\ requests' = [requests EXCEPT ![i] = Respond(r, r.primary)]
            /\ UNCHANGED <<bypassNextConnect, lastConnect, recorded>>
       ELSE IF ~body.parses
       THEN /\ requests' = [requests EXCEPT ![i].pos = "thrown"]
            /\ UNCHANGED <<bypassNextConnect, lastConnect, recorded>>
       ELSE IF ~body.time.defined /\ DeclaresCompact(r.upstreamAccept)
       THEN LET c == Dial(bypassNextConnect, r.host, variant, "second") IN
            /\ requests' = [requests EXCEPT ![i].pos = "awaitSecond",
                                            ![i].secondState = "issued",
                                            ![i].secondAccept = "application/json",
                                            ![i].secondPath = r.url]
            /\ lastConnect' = c
            /\ bypassNextConnect' = c.flagAfter
            /\ UNCHANGED recorded
       ELSE /\ requests' = [requests EXCEPT
                              ![i] = RewriteAndRespond(r, body.obj, body.time, body.time.defined)]
            /\ Record(body.obj, body.time)
            /\ UNCHANGED <<bypassNextConnect, lastConnect>>
    /\ UNCHANGED <<driver, transport, returned>>
    /\ UNCHANGED <<driverVars, rewriterVars, probeVars, startVars>>

\* await performRequest(upstreamRequestOptions) of the second request
\* settles inside the setImmediate callback: a rejection, or a body that
\* does not parse, is thrown in the callback
SecondSettles(i) ==
    LET r == requests[i] IN
    /\ r.pos = "awaitSecond"
    /\ \/ /\ requests' = [requests EXCEPT ![i].pos = "thrown",
                                          ![i].secondState = "failed"]
          /\ UNCHANGED recorded
       \/ \E resp \in UpstreamResponses :
            LET r1 == [r EXCEPT !.secondState = "received", !.second = resp] IN
            IF ~resp.body.parses
            THEN /\ requests' = [requests EXCEPT ![i] = [r1 EXCEPT !.pos = "thrown"]]
                 /\ UNCHANGED recorded
            ELSE /\ requests' = [requests EXCEPT
                       ![i] = RewriteAndRespond(r1, r.primary.body.obj, resp.body.time, FALSE)]
                 /\ Record(r.primary.body.obj, resp.body.time)
    /\ UNCHANGED <<bypassNextConnect, lastConnect>>
    /\ UNCHANGED <<driver, transport, returned>>
    /\ UNCHANGED <<driverVars, rewriterVars, probeVars, startVars>>

\* a proxy process has started inside the package manager:
\* const ignoreNewerThan = new Date(process.env.NPM_BISECT_IGNORE_NEWER_THAN)
InitProxy ==
    /\ pc = "idle"
    /\ timeline = <<>>
    /\ goodBeforeIndex = 0
    /\ badAfterIndex = 0
    /\ tryBeforeIndex = 0
    /\ ignoreNewerThan = InvalidDate
    /\ badEvent = NoEvent
    /\ culprit = 0
    /\ oracle = "arbitrary"
    /\ rpc = "proxy"
    /\ variant \in Variants
    /\ cutoff \in {InvalidDate, 1}
    /\ obj = NoDocument
    /\ timeByVersion = NoTime
    /\ changesMade = FALSE
    /\ input = [obj |-> NoDocument, timeByVersion |-> NoTime]
    /\ before = input
    /\ ProbeIdle
    /\ yarn \in BOOLEAN
    /\ ProxyIdle
    /\ StartDone
    /\ driver = "part_000"
    /\ transport = "stderr"
    /\ recorded = << <<>> >>
    /\ returned = NoTimeline

ReadsRequest == \E i \in 1..Len(requests) : ReadRequest(i)

PrimaryRequestSettles == \E i \in 1..Len(requests) : PrimarySettles(i)

RunsImmediate == \E i \in 1..Len(requests) : Immediate(i)

SecondRequestSettles == \E i \in 1..Len(requests) : SecondSettles(i)

NextProxy ==
    \/ PackageManagerConnects
    \/ ReadsRequest
    \/ PrimaryRequestSettles
    \/ RunsImmediate
    \/ SecondRequestSettles

\* the proxy of src/main.js and of src/unnamed/part_001
SpecProxy == InitProxy /\ [][NextProxy]_vars

----------------------------------------------------------------------------
(* Properties of the bisection driver *)

Terminated == pc \in {"done", "aborted"}

\* 0-based index of the last timeline event published at the same instant
\* as event c (c itself when no later event shares its publish time)
LastAt(tl, c) ==
    CHOOSE i \in 0..(Len(tl) - 1) :
        /\ At(tl, i).time = At(tl, c).time
        /\ \A j \in 0..(Len(tl) - 1) : At(tl, j).time = At(tl, c).time => j <= i

\* C1 (as stated): with the synthetic oracle the event reported at the end
\* is exactly the designated culprit.
C1_ReportsCulprit ==
    (oracle = "synthetic" /\ pc = "done") => badEvent = At(timeline, culprit)

\* C1 (amended): with the synthetic oracle the driver terminates, and the
\* event it reports is the last timeline event whose publish time equals the
\* culprit's; it is the culprit itself whenever no later event of the
\* timeline was published at the same instant.
C1_ReportsLastAtCulpritTime ==
    /\ []((oracle = "synthetic" /\ pc = "done") =>
            /\ badEvent = At(timeline, LastAt(timeline, culprit))
            /\ (LastAt(timeline, culprit) = culprit => badEvent = At(timeline, culprit)))
    /\ (oracle = "synthetic" => <>Terminated)

C1_Witness ==
    /\ oracle = "synthetic"
    /\ pc = "done"
    /\ Len(timeline) >= 3
    /\ goodBeforeIndex > 0
    /\ badAfterIndex < Len(timeline) - 1
    /\ badEvent = At(timeline, culprit)

\* C2 (as stated): with the synthetic oracle the culprit's index lies in
\* [goodBeforeIndex, badAfterIndex] in every state of the search.
C2_CulpritInInterval ==
    oracle = "synthetic" =>
        (goodBeforeIndex <= culprit /\ culprit <= badAfterIndex)

\* C2 (amended): with the synthetic oracle, in every state of the search the
\* index of the last event published at the culprit's publish time (the
\* culprit's own index when no later event shares that time) lies in
\* [goodBeforeIndex, badAfterIndex].
C2_LastAtCulpritTimeInInterval ==
    oracle = "synthetic" =>
        /\ goodBeforeIndex <= LastAt(timeline, culprit)
        /\ LastAt(timeline, culprit) <= badAfterIndex

C2_Witness ==
    /\ oracle = "synthetic"
    /\ pc = "loop"
    /\ goodBeforeIndex > 0
    /\ badAfterIndex < Len(timeline) - 1
    /\ goodBeforeIndex <= culprit /\ culprit <= badAfterIndex

\* C3: whatever the oracle answers, every iteration of the search loop
\* strictly decreases badAfterIndex - goodBeforeIndex, and the loop ends
\* after finitely many probes.
C3_IntervalShrinks ==
    /\ [][(pc = "oracle" /\ pc' = "loop") =>
            (badAfterIndex' - goodBeforeIndex') < (badAfterIndex - goodBeforeIndex)]_vars
    /\ <>Terminated

\* the oracle has answered inconsistently with every single culprit: first
\* "works" at an index above the culprit, then "does not work"
C3_Witness ==
    /\ oracle = "arbitrary"
    /\ pc = "loop"
    /\ goodBeforeIndex > culprit
    /\ badAfterIndex < Len(timeline) - 1

\* C28: in every state of the search loop 0 <= goodBeforeIndex <=
\* badAfterIndex <= n - 1, every probed index lies in (goodBeforeIndex,
\* badAfterIndex], and the loop is left only with badAfterIndex equal to
\* goodBeforeIndex.
C28_IndicesInRange ==
    /\ 0 <= goodBeforeIndex
    /\ goodBeforeIndex <= badAfterIndex
    /\ badAfterIndex <= Len(timeline) - 1
    /\ pc \in {"install", "oracle"} =>
        (goodBeforeIndex < tryBeforeIndex /\ tryBeforeIndex <= badAfterIndex)
    /\ pc = "done" => badAfterIndex = goodBeforeIndex

C28_Witness ==
    /\ pc = "done"
    /\ Len(timeline) = MaxTimeline
    /\ 0 < goodBeforeIndex
    /\ badAfterIndex = goodBeforeIndex
    /\ badAfterIndex < Len(timeline) - 1

\* the candidates a probe hides: the rewriter deletes what is newer than
\* the cutoff of the probe
Hidden(i) == IsNewer(NewDate(At(timeline, i).time), ignoreNewerThan)

\* C29 (as stated): a probe at index try hides exactly the candidates at
\* the indices >= try.
C29_HidesFromTry ==
    pc \in {"install", "oracle"} =>
        \A i \in 0..(Len(timeline) - 1) : Hidden(i) <=> i >= tryBeforeIndex

\* C29 (amended): a probe at index try uses the cutoff timeline[try].time - 1
\* and hides exactly the candidates published at or after timeline[try].time:
\* every candidate at an index >= try, and those before try that share the
\* publish time of timeline[try].
C29_HidesFromPublishTimeOfTry ==
    pc \in {"install", "oracle"} =>
        /\ ignoreNewerThan = At(timeline, tryBeforeIndex).time - 1
        /\ \A i \in 0..(Len(timeline) - 1) :
            /\ Hidden(i) <=> At(timeline, i).time >= At(timeline, tryBeforeIndex).time
            /\ i >= tryBeforeIndex => Hidden(i)
            /\ (i < tryBeforeIndex /\ Hidden(i)) =>
                 At(timeline, i).time = At(timeline, tryBeforeIndex).time

C29_Witness ==
    /\ pc = "oracle"
    /\ tryBeforeIndex >= 2
    /\ tryBeforeIndex < Len(timeline) - 1
    /\ Hidden(tryBeforeIndex - 1)
    /\ ~Hidden(0)

\* ---- the start of the driver ----

\* the events e holds
Events(e) == { e[i] : i \in DOMAIN e }

\* an entry written name@range: an "@" that is not its first piece, with
\* something behind it
HasRange(entry) == \E i \in 2..(Len(entry) - 1) : entry[i] = "@"

\* the place of the "@" between the name and the range: the last one
RangeAt(entry) ==
    CHOOSE i \in 2..(Len(entry) - 1) :
        entry[i] = "@" /\ \A j \in (i + 1)..Len(entry) : entry[j] # "@"

\* the name of an entry name or name@range
EntryName(entry) ==
    IF HasRange(entry) THEN SubSeq(entry, 1, RangeAt(entry) - 1) ELSE entry

\* the range of an entry name@range
EntryRange(entry) == SubSeq(entry, RangeAt(entry) + 1, Len(entry))

\* the strings that are semver ranges
ValidRange(range) == range \in { <<"*">>, <<"^1.0.0">>, <<">=2.3.1">> }

\* a valid filter spec: a package name, alone or with a semver range
ValidEntry(entry) ==
    /\ EntryName(entry) \in { Tokens(EventNames[i].packageName) : i \in DOMAIN EventNames }
    /\ HasRange(entry) => ValidRange(EntryRange(entry))

\* an entry matches an event iff the names are equal and the version
\* satisfies the range, any version when no range is given
Matches(event, entry) ==
    /\ Tokens(event.packageName) = EntryName(entry)
    /\ HasRange(entry) => Satisfies(event.version, EntryRange(entry))

\* T_good < t <= T_bad
InWindow(t) ==
    /\ goodTime # InvalidDate
    /\ badTime # InvalidDate
    /\ goodTime < t
    /\ t <= badTime

\* selected by --only (or no --only given) and matched by no --ignore entry
PassesFilters(event) ==
    /\ Len(argv.only) = 0 \/ \E i \in DOMAIN argv.only : Matches(event, argv.only[i])
    /\ ~\E i \in DOMAIN ignore : Matches(event, ignore[i])

\* C21 (as stated): when --good or --bad does not parse as a date, or an
\* --only/--ignore entry is not a valid filter spec, no probe is ever
\* started.
C21_BadArgumentsStopBeforeProbe ==
    (\/ argv.good = Unparseable
     \/ argv.bad = Unparseable
     \/ \E i \in DOMAIN argv.only : ~ValidEntry(argv.only[i])
     \/ \E i \in DOMAIN argv.ignore : ~ValidEntry(argv.ignore[i]))
    => installs = 0

\* C22: once the first probe has returned and the window has been applied,
\* the timeline holds exactly the returned events whose publish time t
\* satisfies T_good < t <= T_bad, in ascending order of time.
C22_WindowKept ==
    pc = "windowed" =>
        /\ \A e \in Events(returned.events) :
              e \in Events(timeline) <=> InWindow(e.time)
        /\ Events(timeline) \subseteq Events(returned.events)
        /\ \A i \in 1..(Len(timeline) - 1) : timeline[i].time <= timeline[i + 1].time

C22_Witness ==
    /\ pc = "windowed"
    /\ \E e \in Events(returned.events) : e.time = goodTime /\ e \notin Events(timeline)
    /\ \E e \in Events(returned.events) : e.time = badTime /\ e \in Events(timeline)
    /\ \E e \in Events(returned.events) : e.time > badTime

\* C23 (as stated): after the filters, an event of the windowed timeline is
\* in the candidate list iff (--only is empty or the event matches one of
\* its entries) and the event matches no --ignore entry.
C23_FilterSemantics ==
    pc = "filtered" =>
        \A e \in Events(Window(returned.events, goodTime, badTime)) :
            e \in Events(timeline) <=> PassesFilters(e)

\* C24 (as stated): a bisection probe is taken at the publish time of an
\* event that is in the window and passes the filters, and the event
\* reported as the culprit is such an event of the candidate list.
C24_OnlyCandidatesProbedAndReported ==
    /\ pc \in {"install", "oracle"} =>
          /\ tryBeforeIndex \in 0..(Len(timeline) - 1)
          /\ ignoreNewerThan = At(timeline, tryBeforeIndex).time - 1
          /\ InWindow(At(timeline, tryBeforeIndex).time)
          /\ PassesFilters(At(timeline, tryBeforeIndex))
    /\ pc = "done" =>
          /\ badEvent \in Events(timeline)
          /\ InWindow(badEvent.time)
          /\ PassesFilters(badEvent)

\* C25: when the timeline is empty after the window and the filters, the
\* driver stops with its message: it never enters the bisection, it has
\* made the first probe's install and no other, and it reports no culprit.
C25_EmptyTimelineStops ==
    /\ (pc \notin {"start", "firstInstall"} /\ Len(timeline) = 0) =>
          /\ pc \notin {"loop", "install", "oracle", "done"}
          /\ installs = 1
          /\ badEvent = NoEvent
    /\ pc = "noRelevant" => (Len(timeline) = 0 /\ ipc = "idle")

C25_Witness ==
    /\ pc = "noRelevant"
    /\ installs = 1
    /\ Len(Window(returned.events, goodTime, badTime)) > 0

\* C26 (as stated): with --candidates the driver prints exactly the events
\* of (T_good, T_bad] that the --only/--ignore filters do not exclude, and
\* exits after the first probe.
C26_CandidatesPrinted ==
    pc = "exited" =>
        /\ installs = 1
        /\ \A e \in Events(returned.events) :
              e \in Events(stdout) <=> (InWindow(e.time) /\ PassesFilters(e))

-----------------------------------------------------------------------\* C35: a number of steps the driver has announced before a probe is at
\* least the number of probes announced after it, and a search over n
\* candidates makes at most ceil(log2(n)) calls of installDependencies.
C35_StepsLeftBoundsProbes ==
    /\ \A i \in DOMAIN numStepsLeft : Len(numStepsLeft) - i <= numStepsLeft[i]
    /\ installs - 1 = Len(numStepsLeft)
    /\ installs - 1 <= CeilLog2(Len(timeline))

C35_Witness ==
    /\ pc = "done"
    /\ Len(timeline) = MaxCandidates
    /\ installs - 1 = CeilLog2(Len(timeline))
    /\ \E i \in DOMAIN numStepsLeft :
          i < Len(numStepsLeft) /\ Len(numStepsLeft) - i = numStepsLeft[i]

-----
(* Properties of the metadata rewriter *)

\* the reserved keys of a time map, as the specification lists them
ReservedKeys == {"modified", "created", "changed"}

Keys(entries) == { entries[i].version : i \in DOMAIN entries }

\* new Date(timeByVersion[k]) for a key k of the map
TimeOf(entries, k) ==
    NewDate((CHOOSE e \in { entries[i] : i \in DOMAIN entries } : e.version = k).time)

\* the rewriter has been called on a document that has both maps
Rewritten ==
    /\ rpc # "idle"
    /\ before.timeByVersion.defined
    /\ before.obj.hasVersions

\* C4: after the rewriter has run, every version left in versions that has a
\* publish time (in the time map it was called with, hence also in the one it
\* left) has a publish time that is not strictly greater than the cutoff.
C4_NoNewerVersionLeft ==
    Rewritten =>
        \A v \in DOMAIN obj.versions :
            /\ v \in Keys(before.timeByVersion.entries) =>
                  ~DateGT(TimeOf(before.timeByVersion.entries, v), cutoff)
            /\ v \in Keys(timeByVersion.entries) =>
                  ~DateGT(TimeOf(timeByVersion.entries, v), cutoff)

\* a version was removed and another one, published before the cutoff, stays
C4_Witness ==
    /\ rpc = "rewritten"
    /\ changesMade
    /\ DOMAIN obj.versions # DOMAIN before.obj.versions
    /\ \E v \in DOMAIN obj.versions :
          /\ v \in Keys(timeByVersion.entries)
          /\ TimeOf(timeByVersion.entries, v) # InvalidDate
          /\ cutoff # InvalidDate

\* versions and time name the same versions
InCorrespondence(o, tbv) ==
    DOMAIN o.versions = Keys(tbv.entries) \ ReservedKeys

\* C5: when the keys of versions equal the keys of time minus the reserved
\* keys before the call, they do so after it.
C5_CorrespondenceKept ==
    (Rewritten /\ InCorrespondence(before.obj, before.timeByVersion))
        => InCorrespondence(obj, timeByVersion)

C5_Witness ==
    /\ rpc = "rewritten"
    /\ InCorrespondence(before.obj, before.timeByVersion)
    /\ Keys(before.timeByVersion.entries) \cap ReservedKeys # {}
    /\ DOMAIN obj.versions # DOMAIN before.obj.versions
    /\ DOMAIN obj.versions # {}

\* dist-tags.latest names a key of versions
LatestIsVersion(o) ==
    /\ o.hasDistTags
    /\ "latest" \in DOMAIN o.distTags
    /\ o.distTags["latest"] \in DOMAIN o.versions

\* C6 (as stated): if dist-tags.latest named a key of versions before the
\* call and at least one version is preserved (a key of versions that still
\* has its entry in the time map), dist-tags.latest names a key of versions
\* after the call.
C6_LatestNamesVersion ==
    (/\ Rewritten
     /\ LatestIsVersion(before.obj)
     /\ (DOMAIN obj.versions) \cap Keys(timeByVersion.entries) # {})
        => LatestIsVersion(obj)

\* C7: a second call with the same cutoff on the rewritten document leaves
\* the document and its time map as they are and returns false.
C7_Idempotent ==
    rpc = "rewrittenTwice" =>
        /\ obj = before.obj
        /\ timeByVersion = before.timeByVersion
        /\ changesMade = FALSE

\* the first call removed a version and moved dist-tags.latest
C7_Witness ==
    /\ rpc = "rewrittenTwice"
    /\ DOMAIN obj.versions # DOMAIN input.obj.versions
    /\ DOMAIN obj.versions # {}
    /\ LatestIsVersion(input.obj)
    /\ obj.distTags["latest"] # input.obj.distTags["latest"]

\* what a call on the received document with cutoff c preserves
PreservedVersions(c) ==
    DOMAIN RemoveVersionsFromPackageMetadata(
               input.obj, input.timeByVersion, c, variant).obj.versions
PreservedTimes(c) ==
    Keys(RemoveVersionsFromPackageMetadata(
               input.obj, input.timeByVersion, c, variant).timeByVersion.entries)

\* C8: for the same document and cutoffs C1 < C2, what is preserved under C1
\* (the keys of versions, and the keys of time) is preserved under C2.
C8_MonotoneInCutoff ==
    (rpc = "rewritten" /\ cutoff # InvalidDate) =>
        \A c2 \in Cutoffs \ {InvalidDate} :
            cutoff < c2 =>
                /\ DOMAIN obj.versions \subseteq PreservedVersions(c2)
                /\ Keys(timeByVersion.entries) \subseteq PreservedTimes(c2)

\* the cutoff used removes a version and preserves another, and a later
\* cutoff preserves strictly more
C8_Witness ==
    /\ rpc = "rewritten"
    /\ cutoff # InvalidDate
    /\ changesMade
    /\ DOMAIN obj.versions # {}
    /\ \E c2 \in Cutoffs \ {InvalidDate} :
          /\ cutoff < c2
          /\ DOMAIN obj.versions # PreservedVersions(c2)

\* C9 (as stated): modified, created and changed are never deleted from the
\* time map, a call never returns true when only such keys are newer than
\* the cutoff, and none of them becomes dist-tags.latest.
C9_ReservedKeysLeftAlone ==
    Rewritten =>
        /\ \A k \in ReservedKeys :
              k \in Keys(before.timeByVersion.entries) => k \in Keys(timeByVersion.entries)
        /\ changesMade =>
              \E k \in Keys(before.timeByVersion.entries) \ ReservedKeys :
                  DateGT(TimeOf(before.timeByVersion.entries, k), cutoff)
        /\ (obj.hasDistTags /\ "latest" \in DOMAIN obj.distTags
              /\ obj.distTags["latest"] # before.obj.distTags["latest"])
              => obj.distTags["latest"] \notin ReservedKeys

\* the entries of es whose key is in ks, in the order of es
Restrict(es, ks) == SelectSeq(es, LAMBDA e : e.version \in ks)

\* C10: a call changes nothing but the removed entries of time and versions
\* and the value of dist-tags.latest: the objects of the preserved versions,
\* the remaining time entries and their order, every other dist-tag and the
\* other fields of the document are as before.
C10_Frame ==
    rpc # "idle" =>
        /\ obj.name = before.obj.name
        /\ obj.readme = before.obj.readme
        /\ obj.hasVersions = before.obj.hasVersions
        /\ obj.hasDistTags = before.obj.hasDistTags
        /\ DOMAIN obj.versions \subseteq DOMAIN before.obj.versions
        /\ \A v \in DOMAIN obj.versions : obj.versions[v] = before.obj.versions[v]
        /\ DOMAIN obj.distTags = DOMAIN before.obj.distTags
        /\ \A t \in (DOMAIN obj.distTags) \ {"latest"} :
              obj.distTags[t] = before.obj.distTags[t]
        /\ timeByVersion.defined = before.timeByVersion.defined
        /\ timeByVersion.entries =
              Restrict(before.timeByVersion.entries, Keys(timeByVersion.entries))

\* a version was removed, another is preserved, and dist-tags.latest was
\* moved while the tag next was there
C10_Witness ==
    /\ rpc = "rewritten"
    /\ changesMade
    /\ DOMAIN obj.versions # {}
    /\ DOMAIN obj.versions # DOMAIN before.obj.versions
    /\ obj.hasDistTags
    /\ "next" \in DOMAIN obj.distTags
    /\ "latest" \in DOMAIN obj.distTags
    /\ obj.distTags["latest"] # before.obj.distTags["latest"]

\* the versions the call has preserved: the keys of versions that still
\* have their entry in the time map
Preserved == (DOMAIN obj.versions) \cap Keys(timeByVersion.entries)

\* C30 (as stated): when the call removed a version and the version named
\* by dist-tags.latest is among the removed ones, dist-tags.latest names a
\* preserved version, and no preserved version has a strictly later publish
\* time than the one it names.
C30_LatestIsNewestPreserved ==
    (/\ Rewritten
     /\ changesMade
     /\ HasLatest(before.obj)
     /\ before.obj.distTags["latest"] \in
            Keys(before.timeByVersion.entries) \ Keys(timeByVersion.entries)
     /\ Preserved # {})
    => /\ obj.distTags["latest"] \in Preserved
       /\ \A w \in Preserved :
             ~DateGT(TimeOf(timeByVersion.entries, w),
                     TimeOf(timeByVersion.entries, obj.distTags["latest"]))

\* the entries of the time map the call received
EntriesBefore == { before.timeByVersion.entries[i] : i \in DOMAIN before.timeByVersion.entries }

\* C31: an entry of the time map whose value does not parse as an instant
\* is never removed, whatever the cutoff: its key stays in time, its
\* version stays in versions, and a call that returns true has removed an
\* entry whose value does parse.
C31_UnparseableTimeKept ==
    Rewritten =>
        /\ \A e \in EntriesBefore :
              e.time = Unparseable =>
                 /\ e \in { timeByVersion.entries[i] : i \in DOMAIN timeByVersion.entries }
                 /\ e.version \in DOMAIN before.obj.versions =>
                       /\ e.version \in DOMAIN obj.versions
                       /\ obj.versions[e.version] = before.obj.versions[e.version]
        /\ changesMade =>
              \E e \in EntriesBefore :
                 /\ e.time # Unparseable
                 /\ e.version \notin Keys(timeByVersion.entries)

C31_Witness ==
    /\ Rewritten
    /\ changesMade
    /\ cutoff # InvalidDate
    /\ \E e \in EntriesBefore :
          /\ e.time = Unparseable
          /\ e.version \in DOMAIN before.obj.versions
          /\ e.version \in DOMAIN obj.versions
          /\ e.version \in Keys(timeByVersion.entries)

----------------------------------------------------------------------------
(* Properties of the probe runner *)

\* installDependencies has returned to its caller or thrown
ProbeEnded == ipc \in {"returned", "threw"}

\* C18 (as stated): on every path by which installDependencies ends
\* (install success, non-zero exit, failure to spawn, failure while creating
\* the cache or the timeline-output directory) the per-probe cache
\* directory that was created has been removed when the call returns or
\* throws.
C18_CacheDirRemoved == ProbeEnded => ~cacheDirExists

\* C19 (as stated): the spawn wrapper is engaged before the install
\* subprocess is launched, and it is disengaged on every path by which the
\* probe ends, the 'error' event of the subprocess included.
C19_WrapperDisengaged ==
    /\ child = "running" => wrapped
    /\ ProbeEnded => ~wrapped

\* C20: once the install subprocess of a probe has exited with a non-zero
\* code the driver stops: it never consults the oracle and never reports a
\* culprit, it leaves goodBeforeIndex and badAfterIndex as they were, and
\* it starts no further probe.
C20_NonZeroExitStopsDriver ==
    /\ [](child = "exitNonZero" => (pc \in {"install", "aborted"} /\ badEvent = NoEvent))
    /\ [][child = "exitNonZero" =>
            /\ UNCHANGED <<goodBeforeIndex, badAfterIndex, tryBeforeIndex, ignoreNewerThan>>
            /\ child' = "exitNonZero"]_vars

C20_Witness ==
    /\ child = "exitNonZero"
    /\ pc = "aborted"
    /\ goodBeforeIndex > 0
    /\ badAfterIndex > goodBeforeIndex

\* every event a proxy process of the probe recorded is in the events e
Transferred(e) ==
    \A i \in DOMAIN recorded : \A j \in DOMAIN recorded[i] :
        \E k \in DOMAIN e : e[k] = recorded[i][j]

\* C27 (as stated): when a probe that computes the timeline returns (its
\* install has exited with code 0), the timeline it returns holds every
\* event the proxies recorded, whichever of the two transports they use;
\* when the probe throws, no timeline is returned.
C27_TimelineTransferred ==
    /\ (computeTimeline /\ ipc = "returned") =>
           (returned.defined /\ Transferred(returned.events))
    /\ ipc = "threw" => ~returned.defined

-----------------------------------------------------------------------\* C34: the timeline installDependencies resolves with is in ascending
\* order of time and holds at most one event for a pair of package name
\* and version, whatever the proxy processes of the probe have recorded.
C34_TimelineSortedUnique ==
    (ProbeEnded /\ returned.defined) =>
        /\ \A i, j \in DOMAIN returned.events :
              i < j => returned.events[i].time <= returned.events[j].time
        /\ \A i, j \in DOMAIN returned.events :
              (/\ returned.events[i].packageName = returned.events[j].packageName
               /\ returned.events[i].version = returned.events[j].version)
              => i = j

-----
(* Properties of the intercept proxy *)

\* the intercepted requests, handled or in handling
Requests == { requests[i] : i \in 1..Len(requests) }

\* C11 (as stated): in every interleaving of package-manager connects and
\* request handling, the only connect that ever finds bypassNextConnect set
\* is the proxy's own upstream dial, and no connection the package manager
\* opens to a registry hostname is bypassed.
C11_FlagConsumedOnlyByProxy ==
    /\ lastConnect.flagBefore => lastConnect.origin = "proxy"
    /\ (/\ lastConnect.origin = "packageManager"
        /\ IsRegistryHostname(lastConnect.servername, variant))
       => ~lastConnect.bypassed

\* C12: every upstream dial of the proxy, for the primary and for the
\* second request, finds bypassNextConnect set to true, is bypassed to the
\* real registry, and leaves the flag false.
C12_ProxyDialBypassed ==
    /\ lastConnect.flagAfter = bypassNextConnect
    /\ lastConnect.origin = "proxy" =>
        /\ lastConnect.flagBefore
        /\ lastConnect.bypassed
        /\ ~lastConnect.flagAfter

C12_Witness ==
    /\ lastConnect.origin = "proxy"
    /\ lastConnect.dial = "second"
    /\ lastConnect.bypassed
    /\ Len(requests) = MaxRequests

\* C13: a connect of the package manager to a hostname that is not a known
\* registry hostname is bypassed, whatever bypassNextConnect holds.
C13_NonRegistryBypassed ==
    (/\ lastConnect.origin = "packageManager"
     /\ ~IsRegistryHostname(lastConnect.servername, variant))
    => lastConnect.bypassed

C13_Witness ==
    /\ lastConnect.origin = "packageManager"
    /\ lastConnect.servername = "github.com"
    /\ lastConnect.flagBefore
    /\ lastConnect.bypassed
    /\ \E r \in Requests : r.pos = "reading"

\* C14: every response the proxy has rewritten (the rewriter returned true)
\* reaches the client with a content-length equal to the byte length of the
\* re-serialized body, without transfer-encoding and content-encoding, and
\* with connection: close.
C14_RewrittenResponseHeaders ==
    \A r \in Requests :
        (r.pos = "responded" /\ r.changesMade) =>
            LET h == r.response.headers IN
            /\ r.response.body.layout = "indented"
            /\ "content-length" \in DOMAIN h
            /\ h["content-length"] = ToString(ByteLength(r.response.body))
            /\ "transfer-encoding" \notin DOMAIN h
            /\ "content-encoding" \notin DOMAIN h
            /\ "connection" \in DOMAIN h
            /\ h["connection"] = "close"

C14_Witness ==
    \E r \in Requests :
        /\ r.pos = "responded"
        /\ r.changesMade
        /\ "transfer-encoding" \in DOMAIN r.primary.headers
        /\ ByteLength(r.response.body) # ByteLength(r.primary.body)

\* C15 (as stated): whenever the upstream JSON response to a registry
\* request has no time map and the client's Accept header declared
\* application/vnd.npm.install-v1+json, the proxy has made a second upstream
\* request for the same path with Accept: application/json before it
\* answers, and the rewriter was run with the time map of that response.
C15_CompactFallback ==
    \A r \in Requests :
        (/\ r.pos = "responded"
         /\ IsJson(r.primary.headers)
         /\ r.primary.body.parses
         /\ ~r.primary.body.time.defined
         /\ DeclaresCompact(r.accept))
        => /\ r.secondState = "received"
           /\ r.secondAccept = "application/json"
           /\ r.secondPath = r.url
           /\ r.rewriterCalled
           /\ r.rewriterTime = r.second.body.time

\* C16 (as stated): whenever the primary or the second upstream request of
\* an intercepted registry request fails, the failure is emitted as 'error'
\* on the client socket.
C16_UpstreamFailurePropagated ==
    \A r \in Requests :
        (r.primaryState = "failed" \/ r.secondState = "failed")
        => r.toClient = "error"

\* C17 (as stated): when the body of a registry response with a JSON
\* content type does not parse, the client receives the upstream status,
\* headers and body unmodified.
C17_UnparseablePassedThrough ==
    \A r \in Requests :
        (/\ r.primaryState = "received"
         /\ r.pos # "immediate"
         /\ IsJson(r.primary.headers)
         /\ ~r.primary.body.parses)
        => /\ r.toClient = "response"
           /\ r.response = r.primary

\* C32 (as stated): for every intercepted request to a registry hostname
\* whose Accept header declares application/vnd.npm.install-v1+json,
\* whatever its path and the other media types it lists, the upstream
\* request carries Accept: application/json and none of Accept-Encoding,
\* If-None-Match and Connection.
C32_CompactCoercedUpstream ==
    \A r \in Requests :
        (/\ r.pos \notin {"reading", "thrown"}
         /\ r.host \in {"registry.npmjs.org", "registry.yarnpkg.com"}
         /\ r.accept \in {CompactAccept, CompactAlone})
        => /\ r.upstreamAccept = "application/json"
           /\ r.upstreamHeaders \cap StrippedHeaders = {}

\* the event updateTimeline makes of an entry of the time map of pkg
EventOf(e) == [packageName |-> RegistryDocument.name, version |-> e.version,
               time |-> NewDate(e.time)]

\* C33: in the copy of the proxy that keeps a timeline, when a registry
\* JSON document with a time map has been handled, every entry of that map
\* whose key is not reserved is in the timeline of the proxy process, the
\* entries after the cutoff that the rewriter has removed included.
C33_TimelineRecordedBeforeRewrite ==
    variant = "part_001" =>
        \A r \in Requests :
            (r.pos = "responded" /\ r.rewriterCalled /\ r.rewriterTime.defined) =>
                \A i \in DOMAIN r.rewriterTime.entries :
                    r.rewriterTime.entries[i].version \notin ReservedKeys =>
                        EventOf(r.rewriterTime.entries[i]) \in Events(recorded[1])

C33_Witness ==
    /\ variant = "part_001"
    /\ \E r \in Requests :
        /\ r.pos = "responded"
        /\ r.changesMade
        /\ r.response.body.time.defined
        /\ \E i \in DOMAIN r.rewriterTime.entries :
              /\ r.rewriterTime.entries[i].version \notin Keys(r.response.body.time.entries)
              /\ EventOf(r.rewriterTime.entries[i]) \in Events(recorded[1])

\* C36: when the upstream response is not JSON by its Content-Type, or the
\* rewriter has returned false, the handler ends by answering the client
\* with the status code, the headers and the body of the upstream response
\* as performRequest resolved with them, and performRequest resolves only
\* when the whole body has been consumed.
C36_PassThroughUnchanged ==
    \A r \in Requests :
        /\ (/\ r.primaryState = "received"
            /\ r.pos \in {"responded", "thrown"}
            /\ \/ ~IsJson(r.primary.headers)
               \/ r.rewriterCalled /\ ~r.changesMade)
           => /\ r.pos = "responded"
              /\ r.toClient = "response"
              /\ r.response.statusCode = r.primary.statusCode
              /\ r.response.headers = r.primary.headers
              /\ r.response.body = r.primary.body
              /\ r.primary \in UpstreamResponses
        /\ r.toClient = "response" => r.primaryState = "received"

C36_Witness ==
    /\ \E r \in Requests :
          /\ r.pos = "responded"
          /\ ~IsJson(r.primary.headers)
          /\ r.response = r.primary
          /\ r.response.statusCode = 503
    /\ \E r \in Requests :
          /\ r.pos = "responded"
          /\ r.rewriterCalled /\ ~r.changesMade
          /\ r.rewriterTime.defined
          /\ r.response = r.primary
          /\ "transfer-encoding" \in DOMAIN r.response.headers

====
